---- MODULE Spec2Model ----
(***************************************************************************)
(* A model of async_dns.py: the DNS wire codec (build_address,             *)
(* build_request, parse_name, parse_ip, parse_record, parse_header,        *)
(* parse_response, is_valid_hostname) as operators over byte sequences,    *)
(* and the per-query session (DNSProtocol + get_hostinfo) as a state       *)
(* machine driven by the asyncio event loop's ready queue.                 *)
(*                                                                         *)
(* Bytes are naturals 0..255, a bytes object is a sequence of them.        *)
(* Python offsets are 0-based; At and Slice translate.                     *)
(***************************************************************************)
EXTENDS Naturals, Integers, Sequences, FiniteSets, TLC

\* ------------------------------------------------------------ constants

QTYPE_ANY == 255
QTYPE_A == 1
QTYPE_AAAA == 28
QTYPE_CNAME == 5
QTYPE_NS == 2
QCLASS_IN == 1

\* build_address: a label longer than this makes it return None
MaxLabelLen == 63

\* is_valid_hostname: a hostname longer than this is invalid
MaxHostnameLen == 255

\* parse_header / parse_response: the fixed header length
HeaderLen == 12

\* The interpreter's recursion limit (sys.getrecursionlimit(), 1000 in
\* CPython), scaled down: parse_name has no bound of its own, the nested
\* call that exceeds the limit raises RecursionError.
RecursionLimit == 4

\* ------------------------------------------------------- Python values

\* None, as a value comparable with byte sequences (no byte is negative)
NoneVal == <<-1>>

DOT == 46

Min(a, b) == IF a <= b THEN a ELSE b

\* data[i], 0-based; the caller checks i < Len(data) (IndexError otherwise)
At(data, i) == data[i + 1]

\* data[a:b] for 0 <= a: Python clamps a slice to the buffer, it never fails
Slice(data, a, b) == SubSeq(data, a + 1, Min(b, Len(data)))

\* struct.unpack('!H', two bytes)
U16(b) == b[1] * 256 + b[2]

\* struct.pack('!H', v)
P16(v) == <<(v \div 256) % 256, v % 256>>

\* struct.unpack('!i', four bytes): signed, big-endian
I32(b) ==
  LET hi == IF b[1] >= 128 THEN b[1] - 256 ELSE b[1]
  IN  ((hi * 256 + b[2]) * 256 + b[3]) * 256 + b[4]

RECURSIVE Join(_)
\* b'.'.join(labels)
Join(labels) ==
  IF Len(labels) = 0 THEN <<>>
  ELSE IF Len(labels) = 1 THEN labels[1]
  ELSE labels[1] \o <<DOT>> \o Join(Tail(labels))

\* the positions of the dots of s
Dots(s) == {i \in 1..Len(s) : s[i] = DOT}

\* the position of the k-th dot of s
DotAt(s, k) ==
  CHOOSE i \in Dots(s) : Cardinality({j \in Dots(s) : j <= i}) = k

\* bytes.split(b'.'): the pieces between the dots, empty ones included
Split(s) ==
  [k \in 1..(Cardinality(Dots(s)) + 1) |->
     SubSeq(s,
            IF k = 1 THEN 1 ELSE DotAt(s, k - 1) + 1,
            IF k = Cardinality(Dots(s)) + 1 THEN Len(s) ELSE DotAt(s, k) - 1)]

RECURSIVE LStrip(_)
LStrip(s) == IF Len(s) > 0 /\ Head(s) = DOT THEN LStrip(Tail(s)) ELSE s

RECURSIVE RStrip(_)
RStrip(s) ==
  IF Len(s) > 0 /\ s[Len(s)] = DOT THEN RStrip(SubSeq(s, 1, Len(s) - 1)) ELSE s

\* address.strip(b'.'): every leading and trailing dot
Strip(s) == RStrip(LStrip(s))

\* ------------------------------------------------------------- encoding

\* an encoder that leaves the length bytes out
EncodeLabelsBare(labels) == Join(labels) \o <<0>>

RECURSIVE EncodeLabels(_)
\* the loop of build_address; NoneVal when a label is too long
EncodeLabels(labels) ==
  IF Len(labels) = 0 THEN <<0>>
  ELSE IF Len(Head(labels)) > MaxLabelLen THEN NoneVal
  ELSE LET rest == EncodeLabels(Tail(labels))
       IN  IF rest = NoneVal THEN NoneVal
           ELSE <<Len(Head(labels))>> \o Head(labels) \o rest

build_address(address) == EncodeLabels(Split(Strip(address)))

\* build_request with the two random bytes of os.urandom(2) given;
\* [err |-> "TypeError"] when build_address returned None (bytes + None)
build_request(address, qtype, request_id) ==
  LET header == <<1, 0>> \o P16(1) \o P16(0) \o P16(0) \o P16(0)
      addr == build_address(address)
      qtype_qclass == P16(qtype) \o P16(QCLASS_IN)
  IN  IF addr = NoneVal THEN [err |-> "TypeError", req |-> <<>>]
      ELSE [err |-> "", req |-> request_id \o header \o addr \o qtype_qclass]

\* ------------------------------------------------------------- decoding

RECURSIVE parse_name(_, _, _)
RECURSIVE ParseNameLoop(_, _, _, _, _)

\* a pointer that is counted with the bytes of the name it points at
PointerResultWhole(offset, p, labels, r) ==
  IF r.err # ""
  THEN [r EXCEPT !.calls = <<offset>> \o r.calls]
  ELSE [err |-> "", n |-> p + r.n - offset,
        name |-> Join(Append(labels, r.name)),
        calls |-> <<offset>> \o r.calls]

\* What parse_name returns at a pointer found at p, r being the result of the
\* nested parse_name: the nested error, or the labels so far joined with the
\* nested name and p + 2 - offset bytes consumed.
PointerResult(offset, p, labels, r) ==
  IF r.err # ""
  THEN [r EXCEPT !.calls = <<offset>> \o r.calls]
  ELSE [err |-> "", n |-> p + 2 - offset,
        name |-> Join(Append(labels, r.name)),
        calls |-> <<offset>> \o r.calls]

\* The while loop of parse_name at position p with the labels read so far.
\* A result is [err, n, name, calls]: err "" on success, else the exception;
\* n the bytes consumed at offset; calls the offsets at which parse_name was
\* entered by this call and the calls nested in it, in call order.
ParseNameLoop(data, offset, p, labels, depth) ==
  IF p >= Len(data)
  THEN [err |-> "IndexError", n |-> 0, name |-> <<>>, calls |-> <<offset>>]
  ELSE IF At(data, p) = 0
  THEN [err |-> "", n |-> p - offset + 1, name |-> Join(labels),
        calls |-> <<offset>>]
  ELSE IF At(data, p) >= 192
  THEN \* (l & (128 + 64)) == (128 + 64): a pointer
    IF Len(Slice(data, p, p + 2)) # 2
    THEN [err |-> "struct.error", n |-> 0, name |-> <<>>, calls |-> <<offset>>]
    ELSE PointerResult(offset, p, labels,
           parse_name(data, U16(Slice(data, p, p + 2)) % 16384, depth + 1))
  ELSE ParseNameLoop(data, offset, p + 1 + At(data, p),
                     Append(labels, Slice(data, p + 1, p + 1 + At(data, p))),
                     depth)

\* parse_name(data, offset) entered with depth frames of parse_name already
\* on the interpreter's stack
parse_name(data, offset, depth) ==
  IF depth >= RecursionLimit
  THEN [err |-> "RecursionError", n |-> 0, name |-> <<>>, calls |-> <<>>]
  ELSE ParseNameLoop(data, offset, offset, <<>>, depth)

RECURSIVE DecDigits(_)
\* str(n) in ASCII
DecDigits(n) ==
  IF n < 10 THEN <<48 + n>> ELSE Append(DecDigits(n \div 10), 48 + (n % 10))

\* socket.inet_ntop(AF_INET, b): dotted decimal
Ntop4(b) ==
  DecDigits(b[1]) \o <<DOT>> \o DecDigits(b[2]) \o <<DOT>> \o
  DecDigits(b[3]) \o <<DOT>> \o DecDigits(b[4])

HexDigit(d) == IF d < 10 THEN 48 + d ELSE 97 + (d - 10)

RECURSIVE HexDigits(_)
\* "%x" % n
HexDigits(n) ==
  IF n < 16 THEN <<HexDigit(n)>>
  ELSE Append(HexDigits(n \div 16), HexDigit(n % 16))

\* the length of the run of zero groups of w that starts at group i (1-based)
RECURSIVE ZeroRun(_, _)
ZeroRun(w, i) == IF i > Len(w) \/ w[i] # 0 THEN 0 ELSE 1 + ZeroRun(w, i + 1)

RECURSIVE HexGroups(_, _, _)
\* groups i..j of w in hex, colon-separated
HexGroups(w, i, j) ==
  IF i > j THEN <<>>
  ELSE IF i = j THEN HexDigits(w[i])
  ELSE HexDigits(w[i]) \o <<58>> \o HexGroups(w, i + 1, j)

\* socket.inet_ntop(AF_INET6, b): lower-case hex groups, the first longest
\* run of two or more zero groups written "::", and an embedded IPv4 tail for
\* the v4-compatible and v4-mapped forms
Ntop6(b) ==
  LET w == [i \in 1..8 |-> b[2 * i - 1] * 256 + b[2 * i]]
      best == CHOOSE i \in 1..8 :
                /\ \A j \in 1..8 : ZeroRun(w, j) <= ZeroRun(w, i)
                /\ \A j \in 1..(i - 1) : ZeroRun(w, j) < ZeroRun(w, i)
      len == ZeroRun(w, best)
  IN  IF len < 2 THEN HexGroups(w, 1, 8)
      ELSE IF best = 1 /\ (len = 6 \/ (len = 5 /\ w[6] = 65535))
      THEN <<58, 58>> \o (IF len = 5 THEN HexDigits(w[6]) \o <<58>> ELSE <<>>)
           \o Ntop4(SubSeq(b, 13, 16))
      ELSE HexGroups(w, 1, best - 1) \o <<58, 58>> \o HexGroups(w, best + len, 8)

\* inet_ntop on the RDATA slice b: ValueError unless it has the family's size
NtopSlice(addrtype, b) ==
  IF addrtype = QTYPE_A
  THEN IF Len(b) # 4 THEN [err |-> "ValueError", ip |-> <<>>]
       ELSE [err |-> "", ip |-> Ntop4(b)]
  ELSE IF Len(b) # 16 THEN [err |-> "ValueError", ip |-> <<>>]
       ELSE [err |-> "", ip |-> Ntop6(b)]

\* parse_name(data, offset)[1] in parse_ip
NameOf(r) == [err |-> r.err, ip |-> r.name]

\* parse_ip: [err, ip]
parse_ip(addrtype, data, length, offset, depth) ==
  IF addrtype \in {QTYPE_A, QTYPE_AAAA}
  THEN NtopSlice(addrtype, Slice(data, offset, offset + length))
  ELSE IF addrtype \in {QTYPE_CNAME, QTYPE_NS}
  THEN NameOf(parse_name(data, offset, depth))
  ELSE [err |-> "", ip |-> Slice(data, offset, offset + length)]

\* a record parse that raised e
BadRecord(e) ==
  [err |-> e, n |-> 0,
   rec |-> [name |-> <<>>, ip |-> NoneVal, rtype |-> 0, rclass |-> 0,
            ttl |-> <<>>]]

\* the return of parse_record for a resource record whose name parsed to nm,
\* whose ten fixed bytes are f and whose RDATA parsed to ip
RecordResult(nm, f, ip) ==
  IF ip.err # "" THEN BadRecord(ip.err)
  ELSE [err |-> "", n |-> nm.n + 10 + U16(SubSeq(f, 9, 10)),
        rec |-> [name |-> nm.name, ip |-> ip.ip,
                 rtype |-> U16(SubSeq(f, 1, 2)),
                 rclass |-> U16(SubSeq(f, 3, 4)),
                 ttl |-> <<I32(SubSeq(f, 5, 8))>>]]

\* parse_record after the name of a resource record: the '!HHiH' unpack of
\* the ten bytes f, then parse_ip at the RDATA
RecordFields(data, offset, nm, f) ==
  IF Len(f) # 10 THEN BadRecord("struct.error")
  ELSE RecordResult(nm, f,
         parse_ip(U16(SubSeq(f, 1, 2)), data, U16(SubSeq(f, 9, 10)),
                  offset + nm.n + 10, 0))

\* parse_record after the name of a question: the '!HH' unpack of f
QuestionFields(nm, f) ==
  IF Len(f) # 4 THEN BadRecord("struct.error")
  ELSE [err |-> "", n |-> nm.n + 4,
        rec |-> [name |-> nm.name, ip |-> NoneVal,
                 rtype |-> U16(SubSeq(f, 1, 2)),
                 rclass |-> U16(SubSeq(f, 3, 4)),
                 ttl |-> <<>>]]

\* parse_record once parse_name returned nm
RecordAfterName(data, offset, question, nm) ==
  IF nm.err # "" THEN BadRecord(nm.err)
  ELSE IF ~question
  THEN RecordFields(data, offset, nm,
                    Slice(data, offset + nm.n, offset + nm.n + 10))
  ELSE QuestionFields(nm, Slice(data, offset + nm.n, offset + nm.n + 4))

\* parse_record: [err, n, rec]; rec is the tuple
\* (name, ip, record_type, record_class, record_ttl), ttl <<t>> for the
\* integer t and <<>> for None
parse_record(data, offset, question) ==
  RecordAfterName(data, offset, question, parse_name(data, offset, 0))

\* parse_header: [ok |-> FALSE] stands for None
parse_header(data) ==
  IF Len(data) >= HeaderLen
  THEN [ok |-> TRUE,
        res_id |-> U16(SubSeq(data, 1, 2)),
        res_qr |-> IF data[3] >= 128 THEN 128 ELSE 0,
        res_tc |-> ((data[3] \div 2) % 2) * 2,
        res_ra |-> IF data[4] >= 128 THEN 128 ELSE 0,
        res_rcode |-> data[4] % 16,
        res_qdcount |-> U16(SubSeq(data, 5, 6)),
        res_ancount |-> U16(SubSeq(data, 7, 8)),
        res_nscount |-> U16(SubSeq(data, 9, 10)),
        res_arcount |-> U16(SubSeq(data, 11, 12))]
  ELSE [ok |-> FALSE, res_id |-> 0, res_qr |-> 0, res_tc |-> 0, res_ra |-> 0,
        res_rcode |-> 0, res_qdcount |-> 0, res_ancount |-> 0,
        res_nscount |-> 0, res_arcount |-> 0]

RECURSIVE ParseRecords(_, _, _, _, _)

\* the loop body of parse_response for the record result r
RecordsStep(data, offset, count, question, recs, r) ==
  IF r.err # "" THEN [err |-> r.err, offset |-> offset, recs |-> recs]
  ELSE ParseRecords(data, offset + r.n, count - 1, question, Append(recs, r.rec))

\* one "for i in range(0, count)" loop of parse_response:
\* [err, offset, recs], recs the records appended in this loop
ParseRecords(data, offset, count, question, recs) ==
  IF count = 0 THEN [err |-> "", offset |-> offset, recs |-> recs]
  ELSE RecordsStep(data, offset, count, question, recs,
                   parse_record(data, offset, question))

\* None, as parse_response returns it
NoResponse ==
  [ok |-> FALSE, hostname |-> NoneVal, questions |-> <<>>, answers |-> <<>>]

\* the DNSResponse built from the question records qds and answer records ans
BuildResponse(qds, ans) ==
  [ok |-> TRUE,
   hostname |-> IF Len(qds) > 0 THEN qds[1].name ELSE NoneVal,
   questions |-> [i \in 1..Len(qds) |-> <<qds[i].ip, qds[i].rtype, qds[i].rclass>>],
   answers |-> [i \in 1..Len(ans) |-> <<ans[i].ip, ans[i].rtype, ans[i].rclass>>]]

\* the four loops of parse_response, one after the other; each starts where
\* the one before stopped, and an exception in any ends the parse with None
AfterAdditional(qds, ans, ars) ==
  IF ars.err # "" THEN NoResponse ELSE BuildResponse(qds.recs, ans.recs)

AfterAuthority(data, header, qds, ans, nss) ==
  IF nss.err # "" THEN NoResponse
  ELSE AfterAdditional(qds, ans,
         ParseRecords(data, nss.offset, header.res_arcount, FALSE, <<>>))

AfterAnswers(data, header, qds, ans) ==
  IF ans.err # "" THEN NoResponse
  ELSE AfterAuthority(data, header, qds, ans,
         ParseRecords(data, ans.offset, header.res_nscount, FALSE, <<>>))

AfterQuestions(data, header, qds) ==
  IF qds.err # "" THEN NoResponse
  ELSE AfterAnswers(data, header, qds,
         ParseRecords(data, qds.offset, header.res_ancount, FALSE, <<>>))

AfterHeader(data, header) ==
  AfterQuestions(data, header,
    ParseRecords(data, HeaderLen, header.res_qdcount, TRUE, <<>>))

\* parse_response: a DNSResponse [ok |-> TRUE, hostname, questions, answers],
\* or NoResponse when the buffer is short or any exception was caught
parse_response(data) ==
  IF Len(data) >= HeaderLen THEN AfterHeader(data, parse_header(data))
  ELSE NoResponse

\* ----------------------------------------------------------- validation

IsAlnumHyphen(c) ==
  \/ c \in 48..57
  \/ c \in 65..90
  \/ c \in 97..122
  \/ c = 45

\* VALID_HOSTNAME.match(x): (?!-)[A-Z\d-]{1,63}(?<!-)$ with re.IGNORECASE;
\* "$" also matches just before one trailing newline
MatchesValidHostname(x) ==
  \E n \in 1..Min(Len(x), MaxLabelLen) :
    /\ \A i \in 1..n : IsAlnumHyphen(x[i])
    /\ x[1] # 45
    /\ x[n] # 45
    /\ \/ n = Len(x)
       \/ n + 1 = Len(x) /\ x[n + 1] = 10

\* is_valid_hostname: [err, valid].  hostname[-1] is an int, never equal to
\* b'.', so the trailing dot is not stripped; an empty hostname raises
\* IndexError at hostname[-1]
is_valid_hostname(hostname) ==
  IF Len(hostname) > MaxHostnameLen THEN [err |-> "", valid |-> FALSE]
  ELSE IF Len(hostname) = 0 THEN [err |-> "IndexError", valid |-> FALSE]
  ELSE [err |-> "",
        valid |-> \A i \in 1..Len(Split(hostname)) :
                    MatchesValidHostname(Split(hostname)[i])]

\* --------------------------------------------------------------- bounds

\* concurrent get_hostinfo calls (tasks3 launches 200)
NSessions == 2

\* faults the environment injects in one run: a failing socket call or
\* send, a receive error, a datagram that answers no query, a cancellation
MaxFaults == 1

Sessions == 1..NSessions
\* The ephemeral local ports.  The OS binds a new socket to a port no open
\* socket holds; ports being interchangeable, the model hands out the lowest
\* one, so a port is taken again as soon as its socket is closed.
Ports == 1..NSessions

\* b"a.b", b"-a" (not a valid hostname) and a label of 64 bytes
Hostnames ==
  {<<97, DOT, 98>>, <<45, 97>>, [i \in 1..(MaxLabelLen + 1) |-> 120]}

\* a label of n bytes b"x"
XLabel(n) == [i \in 1..n |-> 120]

\* the hostnames asked for when faults are injected: b"a.b", and a label of
\* 64 bytes, which build_address refuses
FaultHostnames == {<<97, DOT, 98>>, XLabel(MaxLabelLen + 1)}

\* the hostnames the stub responder is queried for
StubHostnames == {<<97, DOT, 98>>, <<99>>}

\* values of os.urandom(2)
RequestIds == {<<0, 1>>, <<171, 205>>}

\* -------------------------------------------------------------- network

\* The stub responder's answer to a query: the id and question echoed, QR
\* and RA set, one A record whose name points at the question and whose
\* address is distinct per hostname.
ReplyTo(query) ==
  LET question == Slice(query, HeaderLen, Len(query))
  IN  SubSeq(query, 1, 2) \o <<129, 128>> \o P16(1) \o P16(1) \o P16(0) \o P16(0)
      \o question
      \o <<192, HeaderLen>> \o P16(QTYPE_A) \o P16(QCLASS_IN)
      \o <<0, 0, 1, 44>> \o P16(4) \o <<10, 0, Len(question), query[HeaderLen + 2]>>

\* what recvfrom yields when the socket holds a pending error
ErrItem == <<-2>>

\* Datagrams from the remote address that answer no query of the session:
\* a well-formed reply carrying an id no request uses, a truncated
\* header and a name that points at itself.
StrayDatagrams ==
  { ReplyTo(build_request(<<99>>, QTYPE_A, <<255, 255>>).req),
    <<0, 1, 129>>,
    <<0, 1, 129, 128>> \o P16(1) \o P16(0) \o P16(0) \o P16(0)
      \o <<192, HeaderLen>> \o P16(QTYPE_A) \o P16(QCLASS_IN) }

\* every datagram that can reach a socket: the responder's answers and the
\* stray datagrams
Datagrams ==
  {ReplyTo(build_request(h, QTYPE_A, id).req) :
     h \in {x \in Hostnames \cup StubHostnames : build_address(x) # NoneVal},
     id \in RequestIds}
  \cup StrayDatagrams

\* "response = parse_response(data)" in datagram_received, for each of them
Responses == [d \in Datagrams |-> parse_response(d)]

\* ---------------------------------------------------------------- state

VARIABLES
  hostname,   \* DNSProtocol.hostname of each get_hostinfo call
  task,       \* where each get_hostinfo task stands
  ret,        \* what get_hostinfo returned
  cancelReq,  \* Task.cancel() was called on the task
  fut,        \* the state of get_hostinfo's future
  futres,     \* the result set on it: (response, protocol)
  waiter,     \* the state of create_datagram_endpoint's waiter
  sock,       \* the session's socket: "none", "open", "closed"
  port,       \* its local port
  closing,    \* transport.close() has been called
  closes,     \* how many times the socket itself was closed
  reader,     \* the loop reads the socket
  rcvbuf,     \* datagrams (or ErrItem) waiting in the socket
  ready,      \* the event loop's queue of ready handles
  ntodo,      \* handles left to run in this iteration of the loop
  wire,       \* queries sent and not yet answered
  num,        \* DNSProtocol.num
  pnum,       \* self.num
  sending,    \* DNSProtocol.sending
  receiving,  \* DNSProtocol.receiving
  used_port,  \* DNSProtocol.used_port
  reqid,      \* the id of the request the session built
  sent,       \* datagrams the session sent
  got,        \* the datagram last handed to datagram_received
  errseen,    \* error_received was called
  cberr,      \* the exception a callback of the session raised into the loop
  nfault,     \* faults injected so far
  trace,      \* the session's events, in order
  cbuf,       \* codec: the buffer under decode
  coff,       \* codec: the offset given
  cop,        \* codec: the operation applied
  cres        \* codec: its result

sessionVars ==
  <<hostname, task, ret, cancelReq, fut, futres, waiter, sock, port, closing,
    closes, reader, rcvbuf, ready, ntodo, wire, num, pnum, sending, receiving,
    used_port, reqid, sent, got, errseen, cberr, nfault, trace>>

codecVars == <<cbuf, coff, cop, cres>>

vars == <<sessionVars, codecVars>>

Handle(k, s) == [k |-> k, s |-> s]

\* the codec variables while the sessions run
CodecIdle ==
  /\ cbuf = <<>>
  /\ coff = 0
  /\ cop = "none"
  /\ cres = NoResponse

\* loop.run_until_complete(asyncio.wait(tasks3)) with the calls of launched
\* made: their first steps are scheduled, nothing else exists yet
SessionInit(names, launched) ==
  /\ hostname \in [Sessions -> names]
  /\ task = [s \in Sessions |-> IF s \in launched THEN "scheduled" ELSE "new"]
  /\ ret = [s \in Sessions |-> NoResponse]
  /\ cancelReq = [s \in Sessions |-> FALSE]
  /\ fut = [s \in Sessions |-> "none"]
  /\ futres = [s \in Sessions |-> [response |-> NoResponse, proto |-> 0]]
  /\ waiter = [s \in Sessions |-> "none"]
  /\ sock = [s \in Sessions |-> "none"]
  /\ port = [s \in Sessions |-> 0]
  /\ closing = [s \in Sessions |-> FALSE]
  /\ closes = [s \in Sessions |-> 0]
  /\ reader = [s \in Sessions |-> FALSE]
  /\ rcvbuf = [s \in Sessions |-> <<>>]
  /\ ready = [s \in launched |-> Handle("step", s)]
  /\ ntodo = 0
  /\ wire = {}
  /\ num = 1
  /\ pnum = [s \in Sessions |-> 0]
  /\ sending = {}
  /\ receiving = {}
  /\ used_port = <<>>
  /\ reqid = [s \in Sessions |-> NoneVal]
  /\ sent = [s \in Sessions |-> 0]
  /\ got = [s \in Sessions |-> NoneVal]
  /\ errseen = [s \in Sessions |-> FALSE]
  /\ cberr = [s \in Sessions |-> ""]
  /\ nfault = 0
  /\ trace = [s \in Sessions |-> <<>>]

\* one call is made at once, the others whenever their callers make them
Init == SessionInit(Hostnames, {1}) /\ CodecIdle

\* ------------------------------------------------------- the event loop

RECURSIVE RemoveFirst(_, _)
\* list.remove(x) inside try/except: the first x dropped, if there is one
RemoveFirst(lst, x) ==
  IF Len(lst) = 0 THEN lst
  ELSE IF Head(lst) = x THEN Tail(lst)
  ELSE <<Head(lst)>> \o RemoveFirst(Tail(lst), x)

\* the head of the ready queue is the handle the loop runs next
Running(k) == ntodo > 0 /\ Head(ready).k = k

\* the handle at the head has run and scheduled the handles new
Ran(new) ==
  /\ ready' = Tail(ready) \o new
  /\ ntodo' = ntodo - 1

TaskOver(s) == task[s] \in {"done", "failed", "cancelled"}

FreePorts == Ports \ {port[s] : s \in {x \in Sessions : sock[x] = "open"}}

\* get_hostinfo up to "await dns_request": the future is created, then
\* create_datagram_endpoint allocates and connects the socket, builds the
\* DNSProtocol and its transport, and schedules connection_made and the
\* waiter.  A task cancelled before its first step never starts.  With
\* mayFail the socket call may raise OSError, which get_hostinfo lets through.
Step(mayFail) ==
  /\ Running("step")
  /\ LET s == Head(ready).s IN
     \E p \in Ports \cup {0} :
       /\ p = 0 => (cancelReq[s] \/ FreePorts = {} \/ (mayFail /\ nfault < MaxFaults))
       /\ p # 0 => (p \in FreePorts /\ ~cancelReq[s] /\ \A q \in FreePorts : p <= q)
       /\ nfault' = IF p = 0 /\ ~cancelReq[s] /\ FreePorts # {}
                    THEN nfault + 1 ELSE nfault
       /\ IF cancelReq[s]
          THEN /\ task' = [task EXCEPT ![s] = "cancelled"]
               /\ Ran(<<>>)
               /\ UNCHANGED <<fut, waiter, sock, port, num, pnum>>
          ELSE IF p = 0
          THEN /\ task' = [task EXCEPT ![s] = "failed"]
               /\ fut' = [fut EXCEPT ![s] = "pending"]
               /\ Ran(<<>>)
               /\ UNCHANGED <<waiter, sock, port, num, pnum>>
          ELSE /\ task' = [task EXCEPT ![s] = "await_endpoint"]
               /\ fut' = [fut EXCEPT ![s] = "pending"]
               /\ waiter' = [waiter EXCEPT ![s] = "pending"]
               /\ sock' = [sock EXCEPT ![s] = "open"]
               /\ port' = [port EXCEPT ![s] = p]
               /\ pnum' = [pnum EXCEPT ![s] = num]
               /\ num' = num + 1
               /\ Ran(<<Handle("connection_made", s),
                        Handle("endpoint_ready", s)>>)
  /\ UNCHANGED <<hostname, ret, cancelReq, futres, closing, closes, reader,
                 rcvbuf, wire, sending, receiving, used_port, reqid, sent, got,
                 errseen, cberr, trace, codecVars>>

\* the registration of a protocol under its port in connection_made
UsedPortAdd(up, p, s) ==
  IF p \in DOMAIN up /\ Len(up[p]) > 0
  THEN [up EXCEPT ![p] = Append(up[p], s)]
  ELSE [q \in DOMAIN up \cup {p} |-> IF q = p THEN <<s>> ELSE up[q]]

\* DNSProtocol.connection_made.  build_request raises TypeError when
\* build_address returned None: the loop logs it and the rest of the method
\* is skipped.  A failing send is reported by the transport through
\* error_received and the method goes on.
ConnectionMade(mayFail) ==
  /\ Running("connection_made")
  /\ LET s == Head(ready).s IN
     \E id \in RequestIds, sendok \in BOOLEAN :
       LET req == build_request(hostname[s], QTYPE_A, id) IN
       /\ sendok \/ (mayFail /\ nfault < MaxFaults)
       /\ nfault' = IF sendok THEN nfault ELSE nfault + 1
       /\ IF req.err # ""
          THEN /\ id = CHOOSE i \in RequestIds : TRUE
               /\ sendok
               /\ cberr' = [cberr EXCEPT ![s] = req.err]
               /\ UNCHANGED <<wire, sent, reqid, sending, used_port, errseen,
                              trace>>
          ELSE /\ reqid' = [reqid EXCEPT ![s] = id]
               /\ IF sendok
                  THEN /\ wire' = wire \cup
                                    {[src |-> s, port |-> port[s], data |-> req.req]}
                       /\ sent' = [sent EXCEPT ![s] = @ + 1]
                       /\ trace' = [trace EXCEPT ![s] = Append(@, "send")]
                       /\ UNCHANGED errseen
                  ELSE /\ errseen' = [errseen EXCEPT ![s] = TRUE]
                       /\ trace' = [trace EXCEPT ![s] = Append(@, "error")]
                       /\ UNCHANGED <<wire, sent>>
               /\ sending' = sending \cup {s}
               /\ used_port' = UsedPortAdd(used_port, port[s], s)
               /\ UNCHANGED cberr
  /\ Ran(<<>>)
  /\ UNCHANGED <<hostname, task, ret, cancelReq, fut, futres, waiter, sock,
                 port, closing, closes, reader, rcvbuf, num, pnum, receiving,
                 got, codecVars>>

\* The transport's two other start-up handles, which run back to back: the
\* loop starts reading the socket, and the waiter of
\* create_datagram_endpoint gets its result unless it was cancelled, which
\* schedules the task.
EndpointReady ==
  /\ Running("endpoint_ready")
  /\ LET s == Head(ready).s IN
     /\ reader' = [reader EXCEPT ![s] = TRUE]
     /\ IF waiter[s] = "pending"
        THEN /\ waiter' = [waiter EXCEPT ![s] = "done"]
             /\ Ran(<<Handle("wakeup", s)>>)
        ELSE /\ UNCHANGED waiter
             /\ Ran(<<>>)
  /\ UNCHANGED <<hostname, task, ret, cancelReq, fut, futres, sock, port,
                 closing, closes, rcvbuf, wire, num, pnum, sending, receiving,
                 used_port, reqid, sent, got, errseen, cberr, nfault, trace, codecVars>>

\* The task runs on from its await.  At "await dns_request" a cancellation
\* is raised inside create_datagram_endpoint, which closes the transport and
\* re-raises; otherwise get_hostinfo goes on to "await future".  At "await
\* future" a cancellation ends the task, a result ends it with the response.
Wakeup ==
  /\ Running("wakeup")
  /\ LET s == Head(ready).s IN
     IF task[s] = "await_endpoint"
     THEN IF cancelReq[s]
          THEN /\ task' = [task EXCEPT ![s] = "cancelled"]
               /\ closing' = [closing EXCEPT ![s] = TRUE]
               /\ reader' = [reader EXCEPT ![s] = FALSE]
               /\ trace' = [trace EXCEPT ![s] = Append(@, "close")]
               /\ Ran(IF closing[s] THEN <<>>
                      ELSE <<Handle("connection_lost", s)>>)
               /\ UNCHANGED ret
          ELSE IF fut[s] = "done"
          THEN /\ task' = [task EXCEPT ![s] = "done"]
               /\ ret' = [ret EXCEPT ![s] = futres[s].response]
               /\ Ran(<<>>)
               /\ UNCHANGED <<closing, reader, trace>>
          ELSE /\ task' = [task EXCEPT ![s] = "await_future"]
               /\ Ran(<<>>)
               /\ UNCHANGED <<ret, closing, reader, trace>>
     ELSE IF cancelReq[s]
          THEN /\ task' = [task EXCEPT ![s] = "cancelled"]
               /\ Ran(<<>>)
               /\ UNCHANGED <<ret, closing, reader, trace>>
          ELSE /\ task' = [task EXCEPT ![s] = "done"]
               /\ ret' = [ret EXCEPT ![s] = futres[s].response]
               /\ Ran(<<>>)
               /\ UNCHANGED <<closing, reader, trace>>
  /\ UNCHANGED <<hostname, cancelReq, fut, futres, waiter, sock, port, closes,
                 rcvbuf, wire, num, pnum, sending, receiving, used_port, reqid,
                 sent, got, errseen, cberr, nfault, codecVars>>

\* "DNSProtocol.used_port[port]" in datagram_received does not raise KeyError
HasPortEntry(up, p) == p \in DOMAIN up

\* The loop over used_port[port] that datagram_received runs when the list
\* holds more than one protocol reads x.transport._sock.fileno() of each: the
\* transport of a protocol whose socket is closed has _sock None, and the
\* read raises AttributeError.
StaleEntry(lst) ==
  /\ Len(lst) > 1
  /\ \E i \in DOMAIN lst : sock[lst[i]] = "closed"

\* one future shared by the callbacks of all sessions
CallbackFutureShared(s) == 1

\* the future the callback of session s completes: each get_hostinfo call
\* builds its own future and closes its callback over it
CallbackFuture(s) == s

\* a close() that never schedules the transport's connection_lost step
CloseNothing(s) == <<>>

\* transport.close() takes effect only the first time: the reader is
\* removed and the transport's connection_lost step is scheduled
CloseSchedules(s) ==
  IF closing[s] THEN <<>> ELSE <<Handle("connection_lost", s)>>

\* The transport's _read_ready for one readiness event.  A handle whose
\* reader was removed meanwhile is cancelled and does nothing.  A pending
\* socket error goes to error_received, which only prints.  A datagram goes
\* to datagram_received: the registries are updated, the datagram is parsed,
\* the transport is closed and the callback is called with (response, self);
\* the callback sets the result on its future unless that was cancelled.  A
\* missing used_port key raises KeyError, and a list that holds a closed
\* protocol beside others raises AttributeError, both before the close.
ReadReady ==
  /\ Running("read_ready")
  /\ LET s == Head(ready).s
         t == CallbackFuture(s)
         data == Head(rcvbuf[s])
         response == Responses[data]
     IN
     IF ~reader[s]
     THEN /\ Ran(<<>>)
          /\ UNCHANGED <<rcvbuf, receiving, used_port, closing, reader, fut,
                         futres, got, errseen, cberr, trace>>
     ELSE
       /\ rcvbuf' = [rcvbuf EXCEPT ![s] = Tail(@)]
       /\ IF data = ErrItem
          THEN /\ errseen' = [errseen EXCEPT ![s] = TRUE]
               /\ trace' = [trace EXCEPT ![s] = Append(@, "error")]
               /\ Ran(<<>>)
               /\ UNCHANGED <<receiving, used_port, closing, reader, fut,
                              futres, got, cberr>>
          ELSE
            /\ receiving' = receiving \cup {s}
            /\ got' = [got EXCEPT ![s] = data]
            /\ UNCHANGED errseen
            /\ IF ~HasPortEntry(used_port, port[s])
               THEN /\ cberr' = [cberr EXCEPT ![s] = "KeyError"]
                    /\ trace' = [trace EXCEPT ![s] = @ \o <<"recv", "parse">>]
                    /\ Ran(<<>>)
                    /\ UNCHANGED <<used_port, closing, reader, fut, futres>>
               ELSE IF StaleEntry(used_port[port[s]])
               THEN /\ cberr' = [cberr EXCEPT ![s] = "AttributeError"]
                    /\ trace' = [trace EXCEPT ![s] = @ \o <<"recv", "parse">>]
                    /\ Ran(<<>>)
                    /\ UNCHANGED <<used_port, closing, reader, fut, futres>>
               ELSE
                 /\ used_port' = [used_port EXCEPT
                                    ![port[s]] = RemoveFirst(@, s)]
                 /\ closing' = [closing EXCEPT ![s] = TRUE]
                 /\ reader' = [reader EXCEPT ![s] = FALSE]
                 /\ IF fut[t] = "cancelled"
                    THEN /\ trace' = [trace EXCEPT
                                        ![s] = @ \o <<"recv", "parse", "close">>]
                         /\ Ran(CloseSchedules(s))
                         /\ UNCHANGED <<fut, futres, cberr>>
                    ELSE IF fut[t] = "pending"
                    THEN /\ fut' = [fut EXCEPT ![t] = "done"]
                         /\ futres' = [futres EXCEPT
                                         ![t] = [response |-> response,
                                                 proto |-> s]]
                         /\ trace' = [trace EXCEPT
                                        ![s] = @ \o <<"recv", "parse", "close",
                                                      "deliver">>]
                         /\ Ran(CloseSchedules(s) \o
                                (IF task[t] = "await_future"
                                 THEN <<Handle("wakeup", t)>> ELSE <<>>))
                         /\ UNCHANGED cberr
                    ELSE /\ cberr' = [cberr EXCEPT ![s] = "InvalidStateError"]
                         /\ trace' = [trace EXCEPT
                                        ![s] = @ \o <<"recv", "parse", "close">>]
                         /\ Ran(CloseSchedules(s))
                         /\ UNCHANGED <<fut, futres>>
  /\ UNCHANGED <<hostname, task, ret, cancelReq, waiter, sock, port, closes,
                 wire, num, pnum, sending, reqid, sent, nfault,
                 codecVars>>

\* The transport's connection_lost step: DNSProtocol.connection_lost calls
\* transport.close() again, which does nothing on a closing transport; then
\* the transport closes the socket.
ConnectionLost ==
  /\ Running("connection_lost")
  /\ LET s == Head(ready).s IN
     /\ sock' = [sock EXCEPT ![s] = "closed"]
     /\ closes' = [closes EXCEPT ![s] = @ + 1]
     /\ trace' = [trace EXCEPT ![s] = Append(@, "sockclose")]
     /\ Ran(CloseSchedules(s))
  /\ UNCHANGED <<hostname, task, ret, cancelReq, fut, futres, waiter, port,
                 closing, reader, rcvbuf, wire, num, pnum, sending, receiving,
                 used_port, reqid, sent, got, errseen, cberr, nfault, codecVars>>

Readable == {s \in Sessions : reader[s] /\ Len(rcvbuf[s]) > 0}

\* the orders in which select may report the sockets of S
OrdersOf(S) ==
  {q \in [1..Cardinality(S) -> S] : \A x \in S : \E i \in DOMAIN q : q[i] = x}

\* One iteration of the loop begins: select reports every socket the loop
\* reads that holds a datagram or an error, their handles join the ready
\* queue, and the loop will run the handles that are ready now.
Poll ==
  /\ ntodo = 0
  /\ Len(ready) > 0 \/ Readable # {}
  /\ \E q \in OrdersOf(Readable) :
       ready' = ready \o [i \in DOMAIN q |-> Handle("read_ready", q[i])]
  /\ ntodo' = Len(ready')
  /\ UNCHANGED <<hostname, task, ret, cancelReq, fut, futres, waiter, sock,
                 port, closing, closes, reader, rcvbuf, wire, num, pnum,
                 sending, receiving, used_port, reqid, sent, got, errseen,
                 cberr, nfault, trace, codecVars>>

\* The datagram d reaches the socket open on port p, if there is one.  The
\* program sees an arrival at its next select only, so arrivals are taken
\* between two iterations of the loop.
Arrive(p, d) ==
  /\ ntodo = 0
  /\ rcvbuf' = [s \in Sessions |->
               IF sock[s] = "open" /\ port[s] = p
               THEN Append(rcvbuf[s], d) ELSE rcvbuf[s]]

\* the responder answers one query; the answer goes to the query's port
Respond ==
  /\ \E q \in wire :
       /\ wire' = wire \ {q}
       /\ Arrive(q.port, ReplyTo(q.data))
  /\ UNCHANGED <<hostname, task, ret, cancelReq, fut, futres, waiter, sock,
                 port, closing, closes, reader, ready, ntodo, num, pnum,
                 sending, receiving, used_port, reqid, sent, got, errseen,
                 cberr, nfault, trace, codecVars>>

\* the remote address sends a datagram that answers no query
Stray ==
  /\ nfault < MaxFaults
  /\ \E s \in Sessions, d \in StrayDatagrams :
       /\ sock[s] = "open"
       /\ Arrive(port[s], d)
  /\ nfault' = nfault + 1
  /\ UNCHANGED <<hostname, task, ret, cancelReq, fut, futres, waiter, sock,
                 port, closing, closes, reader, ready, ntodo, wire, num, pnum,
                 sending, receiving, used_port, reqid, sent, got, errseen,
                 cberr, trace, codecVars>>

\* a receive error (ICMP unreachable) becomes pending on a socket
SockError ==
  /\ nfault < MaxFaults
  /\ \E s \in Sessions :
       /\ sock[s] = "open"
       /\ Arrive(port[s], ErrItem)
  /\ nfault' = nfault + 1
  /\ UNCHANGED <<hostname, task, ret, cancelReq, fut, futres, waiter, sock,
                 port, closing, closes, reader, ready, ntodo, wire, num, pnum,
                 sending, receiving, used_port, reqid, sent, got, errseen,
                 cberr, trace, codecVars>>

\* Task.cancel() on a get_hostinfo task: the future the task waits for is
\* cancelled, which schedules the task; a task that is already scheduled
\* only notes the request.
Cancel ==
  /\ nfault < MaxFaults
  /\ \E s \in Sessions :
       /\ task[s] # "new"
       /\ ~TaskOver(s)
       /\ ~cancelReq[s]
       /\ cancelReq' = [cancelReq EXCEPT ![s] = TRUE]
       /\ IF task[s] = "await_future" /\ fut[s] = "pending"
          THEN /\ fut' = [fut EXCEPT ![s] = "cancelled"]
               /\ ready' = Append(ready, Handle("wakeup", s))
               /\ UNCHANGED waiter
          ELSE IF task[s] = "await_endpoint" /\ waiter[s] = "pending"
          THEN /\ waiter' = [waiter EXCEPT ![s] = "cancelled"]
               /\ ready' = Append(ready, Handle("wakeup", s))
               /\ UNCHANGED fut
          ELSE UNCHANGED <<fut, waiter, ready>>
  /\ nfault' = nfault + 1
  /\ UNCHANGED <<hostname, task, ret, futres, sock, port, closing, closes,
                 reader, rcvbuf, ntodo, wire, num, pnum, sending, receiving,
                 used_port, reqid, sent, got, errseen, cberr, trace, codecVars>>

\* a caller calls get_hostinfo: its task is created and scheduled
Launch ==
  /\ ntodo = 0
  /\ \E s \in Sessions :
       /\ task[s] = "new"
       /\ \A x \in 1..(s - 1) : task[x] # "new"
       /\ task' = [task EXCEPT ![s] = "scheduled"]
       /\ ready' = Append(ready, Handle("step", s))
  /\ UNCHANGED <<hostname, ret, cancelReq, fut, futres, waiter, sock, port,
                 closing, closes, reader, rcvbuf, ntodo, wire, num, pnum,
                 sending, receiving, used_port, reqid, sent, got, errseen,
                 cberr, nfault, trace, codecVars>>

\* the handles the loop itself runs
RunLoop(mayFail) ==
  \/ Step(mayFail)
  \/ ConnectionMade(mayFail)
  \/ EndpointReady
  \/ Wakeup
  \/ ReadReady
  \/ ConnectionLost
  \/ Poll

Next ==
  \/ RunLoop(TRUE)
  \/ Launch
  \/ Respond
  \/ Stray
  \/ SockError
  \/ Cancel

\* the loop keeps running its handles and polling; the network and the
\* caller owe nothing
Spec == Init /\ [][Next]_vars /\ WF_vars(RunLoop(TRUE))

\* N concurrent calls against a stub responder that answers every query:
\* no socket call fails, nothing is cancelled, nothing else is sent
StubInit == SessionInit(StubHostnames, Sessions) /\ CodecIdle

StubNext ==
  \/ RunLoop(FALSE)
  \/ Respond

StubSpec ==
  StubInit /\ [][StubNext]_vars /\ WF_vars(RunLoop(FALSE)) /\ WF_vars(Respond)

\* N concurrent calls against a responder that answers every query, while
\* socket calls and sends may fail, receive errors may become pending and
\* datagrams that answer no query may arrive; nothing is cancelled
FaultInit == SessionInit(FaultHostnames, Sessions) /\ CodecIdle

FaultNext ==
  \/ RunLoop(TRUE)
  \/ Respond
  \/ Stray
  \/ SockError

FaultSpec ==
  FaultInit /\ [][FaultNext]_vars /\ WF_vars(RunLoop(TRUE)) /\ WF_vars(Respond)

\* ------------------------------------------------- the codec on its own

\* a response header with the given section counts
ResponseHeader(qd, an, ns, ar) ==
  <<171, 205, 129, 128>> \o P16(qd) \o P16(an) \o P16(ns) \o P16(ar)

\* a resource record on the wire: name, type, class IN, a TTL, RDLENGTH and
\* the RDATA bytes actually present
WireRecord(name, rtype, rdlength, rdata) ==
  name \o P16(rtype) \o P16(QCLASS_IN) \o <<0, 0, 1, 44>> \o P16(rdlength)
  \o rdata

\* Question names placed at offset 12: b"a", the root, a pointer to itself,
\* a label followed by a pointer back to the name's start, two pointers that
\* point at each other, a pointer past the buffer's end, and a pointer into
\* the header, whose count bytes from offset 5 read as a short name.
WireNames ==
  { <<1, 97, 0>>, <<0>>, <<192, 12>>, <<1, 97, 192, 12>>,
    <<192, 14, 192, 12>>, <<192, 255>>, <<192, 5>> }

\* record names: b"b", and a pointer to the question name
RecordNames == { <<1, 98, 0>>, <<192, 12>> }

\* the record types parse_ip tells apart, 16 (TXT) standing for the others
RecordTypes == {QTYPE_A, QTYPE_AAAA, QTYPE_CNAME, QTYPE_NS, 16}

\* RDLENGTH values, and the numbers of RDATA bytes present in the buffer
RdLengths == {0, 4, 6, 16}
RdPresent == {0, 4, 16}

\* The buffers the codec is run on: a header, one question, and one record
\* in the answer, authority or additional section, the buffer ending with
\* the record's RDATA.
CodecBuffers ==
  { ResponseHeader(1, c[1], c[2], c[3]) \o qn \o P16(QTYPE_A) \o P16(QCLASS_IN)
      \o WireRecord(rn, rt, rl, [i \in 1..rp |-> i])
    : c \in {<<1, 0, 0>>, <<0, 1, 0>>, <<0, 0, 1>>},
      qn \in WireNames, rn \in RecordNames, rt \in RecordTypes,
      rl \in RdLengths, rp \in RdPresent }

\* the offsets names are decoded at: the question name, inside it, and the
\* name of the record that follows a question name of one, two or three bytes
NameOffsets == {12, 14, 17, 18, 19}

CodecInit ==
  /\ SessionInit({<<99>>}, {})
  /\ cbuf \in CodecBuffers
  /\ coff = 0
  /\ cop = "none"
  /\ cres = NoResponse

\* parse_name(cbuf, off)
DecodeName ==
  /\ cop = "none"
  /\ \E off \in NameOffsets :
       /\ coff' = off
       /\ cres' = parse_name(cbuf, off, 0)
  /\ cop' = "parse_name"
  /\ UNCHANGED <<cbuf, sessionVars>>

\* parse_response(cbuf)
ParseResponse ==
  /\ cop = "none"
  /\ cres' = parse_response(cbuf)
  /\ cop' = "parse_response"
  /\ UNCHANGED <<cbuf, coff, sessionVars>>

\* parse_record(cbuf, off, question)
ParseRecord ==
  /\ cop = "none"
  /\ \E off \in NameOffsets, question \in BOOLEAN :
       /\ coff' = off
       /\ cres' = parse_record(cbuf, off, question)
       /\ cop' = IF question THEN "parse_question" ELSE "parse_record"
  /\ UNCHANGED <<cbuf, sessionVars>>

CodecNext ==
  \/ DecodeName
  \/ ParseRecord
  \/ ParseResponse

CodecSpec == CodecInit /\ [][CodecNext]_vars

\* -------------------------------------------- hostnames through the codec

\* Labels hostnames are put together from: b"a", b"-a", b"a-", b"A1", b"a_",
\* the empty label, b"a\n", two bytes that would read as a pointer, and
\* labels of 63 and 64 bytes.
HostLabels ==
  { <<97>>, <<45, 97>>, <<97, 45>>, <<65, 49>>, <<97, 95>>, <<>>, <<97, 10>>,
    <<192, 12>>, XLabel(MaxLabelLen), XLabel(MaxLabelLen + 1) }

\* The hostnames the codec is run on: one to three labels joined with dots,
\* and names of 253, 255 and 256 bytes made of labels of at most 63 bytes.
HostInputs ==
  {Join(q) : q \in {<<l>> : l \in HostLabels} \cup (HostLabels \X HostLabels)
                   \cup (HostLabels \X HostLabels \X HostLabels)}
  \cup { Join(<<XLabel(MaxLabelLen), XLabel(MaxLabelLen), XLabel(MaxLabelLen),
                XLabel(MaxLabelLen - 2)>>),
         Join(<<XLabel(MaxLabelLen), XLabel(MaxLabelLen), XLabel(MaxLabelLen),
                XLabel(MaxLabelLen)>>),
         Join(<<XLabel(MaxLabelLen), XLabel(MaxLabelLen), XLabel(MaxLabelLen),
                XLabel(MaxLabelLen - 1), XLabel(1)>>) }

\* parse_name(enc, 0) on what build_address returned: None has no data[p]
DecodeEncoded(enc) ==
  IF enc = NoneVal
  THEN [err |-> "TypeError", n |-> 0, name |-> <<>>, calls |-> <<>>]
  ELSE parse_name(enc, 0, 0)

\* build_request followed by parse_header on the bytes it returned
RequestAndHeader(req) ==
  [err |-> req.err, req |-> req.req, header |-> parse_header(req.req)]

HostInit ==
  /\ SessionInit({<<99>>}, {})
  /\ cbuf \in HostInputs
  /\ coff = 0
  /\ cop = "none"
  /\ cres = NoResponse

\* parse_name(build_address(cbuf), 0)
EncodeDecode ==
  /\ cop = "none"
  /\ cres' = [enc |-> build_address(cbuf),
              dec |-> DecodeEncoded(build_address(cbuf))]
  /\ cop' = "round_trip"
  /\ UNCHANGED <<cbuf, coff, sessionVars>>

\* is_valid_hostname(cbuf)
Validate ==
  /\ cop = "none"
  /\ cres' = is_valid_hostname(cbuf)
  /\ cop' = "is_valid_hostname"
  /\ UNCHANGED <<cbuf, coff, sessionVars>>

\* build_request(cbuf, qtype), then parse_header on the query
BuildRequest ==
  /\ cop = "none"
  /\ \E id \in RequestIds, qtype \in {QTYPE_A, QTYPE_AAAA} :
       /\ coff' = qtype
       /\ cres' = RequestAndHeader(build_request(cbuf, qtype, id))
  /\ cop' = "build_request"
  /\ UNCHANGED <<cbuf, sessionVars>>

HostNext ==
  \/ EncodeDecode
  \/ Validate
  \/ BuildRequest

HostSpec == HostInit /\ [][HostNext]_vars

\* --------------------------------------------------------------- claims

\* the session has a socket
Allocated(s) == sock[s] # "none"

\* C1: once a session is terminal (its get_hostinfo task is over) the socket
\* it allocated has been released, exactly once: transport.close() has been
\* called on it and the socket was never closed twice.
C1_ReleasedExactlyOnce ==
  \A s \in Sessions :
    (TaskOver(s) /\ Allocated(s)) => (closing[s] /\ closes[s] <= 1)

\* C2: a session that has sent its query eventually terminates, whether or
\* not a datagram ever arrives: its caller's await completes.
C2_SentLeadsToTerminal ==
  \A s \in Sessions : (sent[s] > 0) ~> TaskOver(s)

\* C3: the result set on a caller's future comes from the caller's own
\* session and was parsed from the datagram received on that session's
\* socket, and a response returned to a caller names the hostname the caller
\* asked for.
C3_NoCrossDelivery ==
  \A s \in Sessions :
    /\ fut[s] = "done" =>
         /\ futres[s].proto = s
         /\ futres[s].response = parse_response(got[s])
    /\ (task[s] = "done" /\ ret[s].ok) => ret[s].hostname = hostname[s]

\* C4: with N calls launched together and a responder that answers every
\* query, all N calls eventually have returned a parsed response with every
\* session's socket closed, once; and whenever a call has returned, its
\* session's socket is closed already.
C4_AllReturnAndClose ==
  /\ <>(\A s \in Sessions :
          task[s] = "done" /\ ret[s].ok /\ sock[s] = "closed" /\ closes[s] = 1)
  /\ [](\A s \in Sessions : task[s] = "done" => sock[s] = "closed")

\* every call has returned and every socket is closed
C4_Witness ==
  \A s \in Sessions : task[s] = "done" /\ ret[s].ok /\ sock[s] = "closed"

\* C5: a parsed reply is delivered as a session's result only if its
\* transaction id equals the id of the query the session sent.
C5_IdMatches ==
  \A s \in Sessions :
    (fut[s] = "done" /\ futres[s].response.ok) =>
      SubSeq(got[futres[s].proto], 1, 2) = reqid[s]

\* C6: decoding a name never goes on after its pointer chain has come back
\* to an offset it already visited: parse_name is entered at no offset twice
\* and then again.
C6_StopsAtRevisit ==
  cop = "parse_name" =>
    \A i, j \in DOMAIN cres.calls :
      (i < j /\ cres.calls[i] = cres.calls[j]) => j = Len(cres.calls)

\* C7: a cancelled session has released its socket, whether or not a
\* datagram arrived afterwards, and no result was set on the cancelled future.
C7_CancelReleases ==
  \A s \in Sessions :
    /\ (task[s] = "cancelled" /\ Allocated(s)) => closing[s]
    /\ fut[s] = "cancelled" => futres[s].proto = 0

\* the hostname passes is_valid_hostname and has no label over 63 bytes
AcceptableHostname(h) ==
  /\ is_valid_hostname(h).err = ""
  /\ is_valid_hostname(h).valid
  /\ build_address(h) # NoneVal

\* C8: for a hostname that fails validation or holds a label longer than 63
\* bytes no socket is allocated and no datagram is sent.
C8_RejectedBeforeIO ==
  \A s \in Sessions :
    ~AcceptableHostname(hostname[s]) => (~Allocated(s) /\ sent[s] = 0)

\* C9: once a send or receive failure has been reported on the socket of a
\* session that is not terminal, the socket is released and the caller's
\* future is no longer pending.
C9_ErrorFailsSession ==
  \A s \in Sessions :
    (errseen[s] /\ ~TaskOver(s)) => (closing[s] /\ fut[s] # "pending")

RECURSIVE OverrunFrom(_, _, _)
\* walking count resource records from offset, one of them has an RDLENGTH
\* that puts the end of its RDATA past the end of the buffer
OverrunFrom(data, offset, count) ==
  IF count = 0 \/ parse_name(data, offset, 0).err # "" THEN FALSE
  ELSE IF Len(Slice(data, offset + parse_name(data, offset, 0).n,
                    offset + parse_name(data, offset, 0).n + 10)) # 10
  THEN FALSE
  ELSE IF offset + parse_name(data, offset, 0).n + 10
          + U16(Slice(data, offset + parse_name(data, offset, 0).n + 8,
                      offset + parse_name(data, offset, 0).n + 10)) > Len(data)
  THEN TRUE
  ELSE OverrunFrom(data,
         offset + parse_name(data, offset, 0).n + 10
           + U16(Slice(data, offset + parse_name(data, offset, 0).n + 8,
                       offset + parse_name(data, offset, 0).n + 10)),
         count - 1)

\* some record of the buffer has RDATA that would extend past the buffer
RdataOverrun(data) ==
  /\ Len(data) >= HeaderLen
  /\ ParseRecords(data, HeaderLen, parse_header(data).res_qdcount, TRUE, <<>>).err = ""
  /\ OverrunFrom(data,
       ParseRecords(data, HeaderLen, parse_header(data).res_qdcount, TRUE, <<>>).offset,
       parse_header(data).res_ancount + parse_header(data).res_nscount
         + parse_header(data).res_arcount)

\* C10: parse_response returns no DNSResponse for a buffer in which some
\* record's RDLENGTH makes its RDATA extend past the end of the buffer.
C10_OverrunRejected ==
  (cop = "parse_response" /\ RdataOverrun(cbuf)) => ~cres.ok

\* the hostname without one trailing dot
DropTrailingDot(h) ==
  IF Len(h) > 0 /\ h[Len(h)] = DOT THEN SubSeq(h, 1, Len(h) - 1) ELSE h

\* the label sequence of a hostname: its pieces between the dots, a trailing
\* empty label not counted
LabelsOf(h) == Split(DropTrailingDot(h))

\* the round trip was run on a hostname whose labels have between lo and 63
\* bytes and whose encoding has at most 255 bytes
RoundTripOf(lo) ==
  /\ cop = "round_trip"
  /\ \A i \in DOMAIN LabelsOf(cbuf) :
       Len(LabelsOf(cbuf)[i]) \in lo..MaxLabelLen
  /\ cres.enc # NoneVal
  /\ Len(cres.enc) <= 255

\* C11 as stated: for every hostname whose labels are each at most 63 bytes
\* and whose encoded length is at most 255 bytes, parse_name at offset 0 of
\* build_address's bytes recovers the identical label sequence.
C11_RoundTripAnyLabels ==
  RoundTripOf(0) =>
    (cres.dec.err = "" /\ Split(cres.dec.name) = LabelsOf(cbuf))

\* C11 amended: for every hostname whose labels each have between 1 and 63
\* bytes and whose encoded length is at most 255 bytes, parse_name at offset
\* 0 of build_address's bytes recovers the identical label sequence.
C11_RoundTrip ==
  RoundTripOf(1) =>
    (cres.dec.err = "" /\ Split(cres.dec.name) = LabelsOf(cbuf))

\* a name of three labels, one of them of 63 bytes, went round
C11_Witness ==
  /\ RoundTripOf(1)
  /\ Len(LabelsOf(cbuf)) = 3
  /\ \E i \in DOMAIN LabelsOf(cbuf) : Len(LabelsOf(cbuf)[i]) = MaxLabelLen
  /\ Split(cres.dec.name) = LabelsOf(cbuf)

\* a label of 1 to 63 letters, digits and hyphens that neither starts nor
\* ends with a hyphen
LabelOK(x) ==
  /\ Len(x) \in 1..MaxLabelLen
  /\ \A i \in DOMAIN x : IsAlnumHyphen(x[i])
  /\ x[1] # 45
  /\ x[Len(x)] # 45

\* the validity rule: at most 255 bytes and, one trailing dot stripped,
\* every label well-formed
ValidByRule(h) ==
  /\ Len(h) <= MaxHostnameLen
  /\ \A i \in DOMAIN LabelsOf(h) : LabelOK(LabelsOf(h)[i])

\* C12: is_valid_hostname returns invalid for every name longer than 255
\* bytes; otherwise it strips one trailing dot and returns valid exactly when
\* every remaining label is 1 to 63 letters, digits or hyphens and neither
\* starts nor ends with a hyphen; so a valid name with one trailing dot is
\* valid.
C12_ValidByRule ==
  (cop = "is_valid_hostname" /\ cres.err = "") =>
    cres.valid = ValidByRule(cbuf)

\* the question records of a buffer, as the first loop of parse_response
\* reads them
QuestionsOf(data) ==
  ParseRecords(data, HeaderLen, parse_header(data).res_qdcount, TRUE, <<>>)

\* the answer records of a buffer, read where the questions end
AnswersOf(data) ==
  ParseRecords(data, QuestionsOf(data).offset, parse_header(data).res_ancount,
               FALSE, <<>>)

\* hostname is the first question's name, and answers holds the ANCOUNT
\* records of the answer section and nothing else
SectionsKept(data, response) ==
  /\ Len(QuestionsOf(data).recs) > 0 =>
       response.hostname = QuestionsOf(data).recs[1].name
  /\ Len(response.questions) = parse_header(data).res_qdcount
  /\ Len(response.answers) = parse_header(data).res_ancount
  /\ \A i \in DOMAIN response.answers :
       response.answers[i] = <<AnswersOf(data).recs[i].ip,
                               AnswersOf(data).recs[i].rtype,
                               AnswersOf(data).recs[i].rclass>>

\* C13: a DNSResponse returned by parse_response has the first question's
\* name as hostname, QDCOUNT question entries (name, type, class) each
\* carrying its question's decoded name, and ANCOUNT answers taken from the
\* answer section only, no authority or additional record among them.
C13_SectionsFaithful ==
  (cop = "parse_response" /\ cres.ok) =>
    /\ SectionsKept(cbuf, cres)
    /\ \A i \in DOMAIN cres.questions :
         cres.questions[i] = <<QuestionsOf(cbuf).recs[i].name,
                               QuestionsOf(cbuf).recs[i].rtype,
                               QuestionsOf(cbuf).recs[i].rclass>>

\* C14: a session's future is completed at most once: over any sequence of
\* datagram arrivals, a future that is done stays done with the result it
\* has, and no callback ever sets a result on a future that is already done
\* (set_result would raise InvalidStateError).
C14_SingleShot ==
  [][\A s \in Sessions :
       /\ fut[s] = "done" => (fut'[s] = "done" /\ futres'[s] = futres[s])
       /\ cberr'[s] # "InvalidStateError"]_vars

\* a session's future is done, its socket is closed, and a second datagram
\* that arrived on that socket was never handed over
C14_Witness ==
  \E s \in Sessions :
    /\ fut[s] = "done"
    /\ sock[s] = "closed"
    /\ Len(rcvbuf[s]) > 0

\* session s has failed: a socket call or a send failed, an error was
\* received, one of its callbacks raised, or the datagram it received did
\* not parse
Failed(s) ==
  \/ task[s] = "failed"
  \/ errseen[s]
  \/ cberr[s] # ""
  \/ (got[s] # NoneVal /\ ~Responses[got[s]].ok)

\* what the claim holds fixed for a session while another one fails
Outcome(s) == <<sock[s], closing[s], fut[s], futres[s], task[s], ret[s]>>

\* C15: the step in which one session fails (a malformed reply, a socket
\* error or an exception while its datagram is handled) leaves the socket,
\* the future and the result of every other session unchanged, and every
\* session that has not failed itself still completes normally: its call
\* returns a parsed response and its socket is closed.
C15_FailuresLocal ==
  /\ [][\A s \in Sessions :
          (~Failed(s) /\ Failed(s)') =>
            \A t \in Sessions \ {s} : Outcome(t)' = Outcome(t)]_vars
  /\ <>(\A t \in Sessions :
          \/ Failed(t)
          \/ (task[t] = "done" /\ ret[t].ok /\ sock[t] = "closed"))

\* one session has failed with its datagram, another has completed normally
C15_Witness ==
  \E s, t \in Sessions :
    /\ got[s] # NoneVal
    /\ Failed(s)
    /\ ~Failed(t)
    /\ task[t] = "done" /\ ret[t].ok /\ sock[t] = "closed"

\* in the event sequence tr every event b has an event a before it
Before(tr, a, b) ==
  \A j \in DOMAIN tr : tr[j] = b => \E i \in 1..(j - 1) : tr[i] = a

\* C16: in every session the events come in one order: the query is sent
\* before a datagram is received, the datagram is parsed after it is
\* received, the socket is closed after the parse, the result is delivered
\* after the close; and a session that has not sent its query delivers no
\* result.
C16_FixedOrder ==
  \A s \in Sessions :
    /\ Before(trace[s], "send", "recv")
    /\ Before(trace[s], "recv", "parse")
    /\ Before(trace[s], "parse", "deliver")
    /\ Before(trace[s], "close", "deliver")
    /\ fut[s] = "done" => sent[s] > 0

\* C17: whatever the state of the registries used_port, sending and
\* receiving, a session that datagram_received was called on has closed its
\* transport and its callback has run: the future of its caller is completed
\* with the response parsed from that datagram, unless it was cancelled.
C17_RegistriesDoNotGate ==
  \A s \in Sessions :
    got[s] # NoneVal =>
      /\ closing[s]
      /\ fut[s] \in {"done", "cancelled"}
      /\ fut[s] = "done" => futres[s] = [response |-> Responses[got[s]], proto |-> s]

\* C18: every query build_request returns starts with a 12-byte header with
\* QR = 0, Opcode = 0, the RD bit unset, QDCOUNT = 1 and ANCOUNT, NSCOUNT and
\* ARCOUNT 0, followed by the encoded name and (qtype, class IN); and
\* parse_header of the query gives back the transaction id and QR = 0.
C18_QueryHeader ==
  (cop = "build_request" /\ cres.err = "") =>
    /\ Len(cres.req) = HeaderLen + Len(build_address(cbuf)) + 4
    /\ cres.req[3] \div 128 = 0
    /\ (cres.req[3] \div 8) % 16 = 0
    /\ cres.req[3] % 2 = 0
    /\ U16(SubSeq(cres.req, 5, 6)) = 1
    /\ SubSeq(cres.req, 7, HeaderLen) = <<0, 0, 0, 0, 0, 0>>
    /\ SubSeq(cres.req, HeaderLen + 1, Len(cres.req)) =
         build_address(cbuf) \o P16(coff) \o P16(QCLASS_IN)
    /\ cres.header.ok
    /\ P16(cres.header.res_id) = SubSeq(cres.req, 1, 2)
    /\ cres.header.res_qr = 0

\* the name at offset off of data is nothing but a compression pointer, to
\* an earlier offset at which a name decodes
PurePointer(data, off) ==
  /\ off + 2 <= Len(data)
  /\ At(data, off) >= 192
  /\ U16(Slice(data, off, off + 2)) % 16384 < off
  /\ parse_name(data, U16(Slice(data, off, off + 2)) % 16384, 0).err = ""

\* the name that the pointer at off points at, decoded on its own
PointedName(data, off) ==
  parse_name(data, U16(Slice(data, off, off + 2)) % 16384, 0)

\* C19: where a name is encoded purely as a compression pointer to an
\* earlier name, parse_name returns the earlier name's text and 2 bytes
\* consumed, however many bytes the earlier name takes; parse_record reads
\* the record's fixed fields right after the two bytes, so a question there
\* takes 6 bytes and a record 12 bytes plus its RDLENGTH.
C19_PointerTakesTwo ==
  PurePointer(cbuf, coff) =>
    /\ cop = "parse_name" =>
         /\ cres.err = ""
         /\ cres.n = 2
         /\ cres.name = PointedName(cbuf, coff).name
    /\ (cop = "parse_question" /\ cres.err = "") =>
         /\ cres.n = 2 + 4
         /\ cres.rec.name = PointedName(cbuf, coff).name
         /\ cres.rec.rtype = U16(Slice(cbuf, coff + 2, coff + 4))
    /\ (cop = "parse_record" /\ cres.err = "") =>
         /\ cres.n = 2 + 10 + U16(Slice(cbuf, coff + 10, coff + 12))
         /\ cres.rec.name = PointedName(cbuf, coff).name
         /\ cres.rec.rtype = U16(Slice(cbuf, coff + 2, coff + 4))

\* parse_name was run on a pointer to a name of three bytes and took two
C19_Witness ==
  /\ cop = "parse_name"
  /\ PurePointer(cbuf, coff)
  /\ PointedName(cbuf, coff).n = 3
  /\ cres.n = 2
  /\ cres.name = <<97>>

\* parse_record was run on a record whose name is such a pointer
C19_RecordWitness ==
  /\ cop = "parse_record"
  /\ PurePointer(cbuf, coff)
  /\ cres.err = ""
  /\ cres.rec.name = <<97>>

\* parse_name was run on a pointer to a name that is itself a pointer
C19_ChainWitness ==
  /\ cop = "parse_name"
  /\ PurePointer(cbuf, coff)
  /\ Len(PointedName(cbuf, coff).calls) = 2
  /\ cres.n = 2
  /\ cres.name # <<>>

====
